---------------------------- MODULE Spec2Model ----------------------------
(***************************************************************************)
(* Model of Car_cover.py: the attribute-extraction functions               *)
(* (_detect_material, _detect_vehicle_type, _extract_size,                 *)
(* CarCoverScraper._extract_cover_specs) and the scrape loop               *)
(* (CarCoverScraper.scrape, _scrape_listing_page, _save_results).          *)
(*                                                                         *)
(* A Python str is a sequence of characters; a character is a one-letter   *)
(* TLA+ string, and the two non-ASCII characters of the size pattern are   *)
(* named by their code points.                                             *)
(***************************************************************************)
EXTENDS Integers, Sequences, FiniteSets, TLC

VARIABLES
    \* a direct call of _extract_cover_specs
    description,   \* the text handed to it
    specs,         \* the record it returned
    pc,            \* "input" before the call, "done" after it
    \* a call of CarCoverScraper.scrape
    site,          \* what the site serves: per search page, its listings
    page,          \* the loop variable of scrape
    listings,      \* the listings of the page being processed
    idx,           \* the position of the listing loop in listings
    listing_data,  \* the records gathered from the page being processed
    results,       \* the records of the pages processed so far
    executor,      \* the futures submitted to the page's ThreadPoolExecutor
    files,         \* the files _save_results wrote
    returned,      \* what scrape returned
    scrape_pc      \* where scrape is

extract_vars == <<description, specs, pc>>

scrape_vars ==
    <<site, page, listings, idx, listing_data, results, executor, files,
      returned, scrape_pc>>

vars == <<extract_vars, scrape_vars>>

----------------------------------------------------------------------------
(* Characters and str methods *)

LowerLetters ==
    <<"a", "b", "c", "d", "e", "f", "g", "h", "i", "j", "k", "l", "m",
      "n", "o", "p", "q", "r", "s", "t", "u", "v", "w", "x", "y", "z">>

UpperLetters ==
    <<"A", "B", "C", "D", "E", "F", "G", "H", "I", "J", "K", "L", "M",
      "N", "O", "P", "Q", "R", "S", "T", "U", "V", "W", "X", "Y", "Z">>

\* The ASCII characters \d matches.
Digits == {"0", "1", "2", "3", "4", "5", "6", "7", "8", "9"}

\* ASCII characters \s matches.
Whitespace == {" ", "\t", "\n"}

\* U+221A SQUARE ROOT and U+00F3 LATIN SMALL LETTER O WITH ACUTE: the two
\* characters the bytes E2 88 9A C3 B3 of the size pattern decode to (the
\* bytes C3 97 of U+00D7 MULTIPLICATION SIGN, read as Mac Roman).
SquareRoot == "U+221A"

OAcute == "U+00F3"

\* Python's None, a value no str equals.
None == <<"None">>

UpperToLower ==
    [c \in {UpperLetters[i] : i \in 1..26} |->
        LowerLetters[CHOOSE i \in 1..26 : UpperLetters[i] = c]]

\* U+00F3 upper-cases to U+00D3 LATIN CAPITAL LETTER O WITH ACUTE.
LowerToUpper ==
    [c \in {LowerLetters[i] : i \in 1..26} \cup {OAcute} |->
        IF c = OAcute THEN "U+00D3"
        ELSE UpperLetters[CHOOSE i \in 1..26 : LowerLetters[i] = c]]

\* str.lower() on one character.
char_lower(c) == IF c \in DOMAIN UpperToLower THEN UpperToLower[c] ELSE c

\* str.upper() on one character.
char_upper(c) == IF c \in DOMAIN LowerToUpper THEN LowerToUpper[c] ELSE c

str_lower(text) == [i \in 1..Len(text) |-> char_lower(text[i])]

str_upper(text) == [i \in 1..Len(text) |-> char_upper(text[i])]

\* text[i : i + len(kw)] == kw
StartsAt(kw, text, i) ==
    /\ i + Len(kw) - 1 <= Len(text)
    /\ \A k \in 1..Len(kw) : text[i + k - 1] = kw[k]

\* Python's `kw in text` for two strs.
str_in(kw, text) == \E i \in 1..(Len(text) + 1) : StartsAt(kw, text, i)

----------------------------------------------------------------------------
(* The re module, for the patterns the program uses: a pattern is a list   *)
(* of alternatives, an alternative a list of items, an item a character    *)
(* set repeated greedily (once, zero or more, one or more), possibly a     *)
(* capture group.                                                          *)

Lit(c) == [chars |-> {c}, min |-> 1, many |-> FALSE, group |-> 0]

Class(S) == [chars |-> S, min |-> 1, many |-> FALSE, group |-> 0]

\* \s+ where the pattern has \s*
WsPlus == [chars |-> Whitespace, min |-> 1, many |-> TRUE, group |-> 0]

\* \s*
WsStar == [chars |-> Whitespace, min |-> 0, many |-> TRUE, group |-> 0]

\* (\d+) as group g
DigitsGroup(g) == [chars |-> Digits, min |-> 1, many |-> TRUE, group |-> g]

LitStr(s) == [i \in 1..Len(s) |-> Lit(s[i])]

\* re.I: a literal matches both cases of its letter.
IgnoreCase(alt) ==
    [i \in 1..Len(alt) |->
        [alt[i] EXCEPT !.chars =
            UNION {{c, char_lower(c), char_upper(c)} : c \in alt[i].chars}]]

re_compile(pattern, ignorecase) ==
    IF ignorecase
    THEN [a \in 1..Len(pattern) |-> IgnoreCase(pattern[a])]
    ELSE pattern

NoMatch == [end |-> -1, groups |-> <<>>]

\* The longest run of characters of `item` at pos (at most one if not repeated).
RECURSIVE RunLength(_, _, _, _)
RunLength(item, text, pos, n) ==
    IF /\ pos + n <= Len(text)
       /\ text[pos + n] \in item.chars
       /\ (item.many \/ n = 0)
    THEN RunLength(item, text, pos, n + 1)
    ELSE n

\* Backtracking match of the items k.. of one alternative at pos: each
\* repeated item takes the longest run first and gives characters back
\* until the rest matches.
RECURSIVE re_match_items(_, _, _, _), re_match_repeat(_, _, _, _, _)
re_match_items(alt, k, text, pos) ==
    IF k > Len(alt)
    THEN [end |-> pos, groups |-> <<>>]
    ELSE re_match_repeat(alt, k, text, pos, RunLength(alt[k], text, pos, 0))

re_match_repeat(alt, k, text, pos, n) ==
    IF n < alt[k].min
    THEN NoMatch
    ELSE LET rest == re_match_items(alt, k + 1, text, pos + n)
         IN  IF rest.end >= 0
             THEN IF alt[k].group > 0
                  THEN [rest EXCEPT !.groups =
                           (alt[k].group :> SubSeq(text, pos, pos + n - 1)) @@ @]
                  ELSE rest
             ELSE re_match_repeat(alt, k, text, pos, n - 1)

\* The first alternative, in order, that matches at pos.
RECURSIVE re_match_alternatives(_, _, _, _)
re_match_alternatives(regex, a, text, pos) ==
    IF a > Len(regex)
    THEN NoMatch
    ELSE LET m == re_match_items(regex[a], 1, text, pos)
         IN  IF m.end >= 0 THEN m
             ELSE re_match_alternatives(regex, a + 1, text, pos)

\* re.search: the match at the leftmost position that has one.
RECURSIVE re_search_from(_, _, _)
re_search_from(regex, text, pos) ==
    IF pos > Len(text) + 1
    THEN NoMatch
    ELSE LET m == re_match_alternatives(regex, 1, text, pos)
         IN  IF m.end >= 0 THEN m ELSE re_search_from(regex, text, pos + 1)

re_search(regex, text) == re_search_from(regex, text, 1)

----------------------------------------------------------------------------
(* _detect_material *)

materials ==
    << [mat |-> <<"p", "o", "l", "y", "e", "s", "t", "e", "r">>,
        keywords |-> << <<"p", "o", "l", "y", "e", "s", "t", "e", "r">>,
                        <<"p", "o", "l", "y">> >>],
       [mat |-> <<"n", "y", "l", "o", "n">>,
        keywords |-> << <<"n", "y", "l", "o", "n">> >>],
       [mat |-> <<"c", "o", "t", "t", "o", "n">>,
        keywords |-> << <<"c", "o", "t", "t", "o", "n">> >>],
       [mat |-> <<"P", "V", "C">>,
        keywords |-> << <<"P", "V", "C">>, <<"v", "i", "n", "y", "l">> >>] >>

\* any(kw in text_lower for kw in keywords)
MaterialKeywordIn(keywords, text_lower) ==
    \E k \in 1..Len(keywords) : str_in(keywords[k], text_lower)

\* for mat, keywords in materials.items(): ... return mat
RECURSIVE MaterialLoop(_, _)
MaterialLoop(m, text_lower) ==
    IF m > Len(materials)
    THEN None
    ELSE IF MaterialKeywordIn(materials[m].keywords, text_lower)
         THEN materials[m].mat
         ELSE MaterialLoop(m + 1, text_lower)

\* `return mat` after the loop in place of `return None`.
_detect_material_ReturnsLastLabel(text) ==
    LET found == MaterialLoop(1, str_lower(text))
    IN  IF found = None THEN materials[Len(materials)].mat ELSE found

_detect_material(text) == MaterialLoop(1, str_lower(text))

----------------------------------------------------------------------------
(* _detect_vehicle_type *)

types ==
    << [v_type |-> <<"S", "U", "V">>,
        keywords |-> << <<"S", "U", "V">>,
                        <<"s", "p", "o", "r", "t", " ",
                          "u", "t", "i", "l", "i", "t", "y">> >>],
       [v_type |-> <<"s", "e", "d", "a", "n">>,
        keywords |-> << <<"s", "e", "d", "a", "n">> >>],
       [v_type |-> <<"h", "a", "t", "c", "h", "b", "a", "c", "k">>,
        keywords |-> << <<"h", "a", "t", "c", "h", "b", "a", "c", "k">>,
                        <<"h", "a", "t", "c", "h">> >>],
       [v_type |-> <<"u", "n", "i", "v", "e", "r", "s", "a", "l">>,
        keywords |-> << <<"u", "n", "i", "v", "e", "r", "s", "a", "l">>,
                        <<"a", "l", "l", " ", "c", "a", "r", "s">>,
                        <<"f", "i", "t", " ", "a", "l", "l">> >>] >>

\* any(kw in text_upper for kw in keywords)
VehicleKeywordIn_NoUpper(keywords, text_upper) ==
    \E k \in 1..Len(keywords) : str_in(keywords[k], text_upper)

\* any(kw.upper() in text_upper for kw in keywords)
VehicleKeywordIn(keywords, text_upper) ==
    \E k \in 1..Len(keywords) : str_in(str_upper(keywords[k]), text_upper)

\* for v_type, keywords in types.items(): ... return v_type
RECURSIVE VehicleLoop(_, _)
VehicleLoop(v, text_upper) ==
    IF v > Len(types)
    THEN None
    ELSE IF VehicleKeywordIn(types[v].keywords, text_upper)
         THEN types[v].v_type
         ELSE VehicleLoop(v + 1, text_upper)

_detect_vehicle_type(text) == VehicleLoop(1, str_upper(text))

----------------------------------------------------------------------------
(* _extract_size *)

\* r'(\d+)\s*cm\s*[x<U+221A><U+00F3>]\s*(\d+)\s*cm'
size_pattern ==
    << << DigitsGroup(1), WsStar, Lit("c"), Lit("m"), WsStar,
          Class({"x", SquareRoot, OAcute}), WsStar,
          DigitsGroup(2), WsStar, Lit("c"), Lit("m") >> >>

size_regex == re_compile(size_pattern, FALSE)

_extract_size(text) ==
    LET size_match == re_search(size_regex, text)
    IN  IF size_match.end >= 0
        THEN size_match.groups[1] \o <<"x">> \o size_match.groups[2]
                 \o <<"c", "m">>
        ELSE None

----------------------------------------------------------------------------
(* CarCoverScraper._extract_cover_specs *)

\* r'water\s*proof|rain\s*proof'
waterproof_pattern ==
    << LitStr(<<"w", "a", "t", "e", "r">>) \o <<WsStar>>
           \o LitStr(<<"p", "r", "o", "o", "f">>),
       LitStr(<<"r", "a", "i", "n">>) \o <<WsStar>>
           \o LitStr(<<"p", "r", "o", "o", "f">>) >>

\* r'UV|ultraviolet|sun\s*protect'
uv_pattern ==
    << LitStr(<<"U", "V">>),
       LitStr(<<"u", "l", "t", "r", "a", "v", "i", "o", "l", "e", "t">>),
       LitStr(<<"s", "u", "n">>) \o <<WsStar>>
           \o LitStr(<<"p", "r", "o", "t", "e", "c", "t">>) >>

\* re.I
waterproof_regex == re_compile(waterproof_pattern, TRUE)

\* the UV search without re.I
uv_regex_CaseSensitive == re_compile(uv_pattern, FALSE)

uv_regex == re_compile(uv_pattern, TRUE)

\* bool(re.search(pattern, description, re.I))
is_waterproof(text) == re_search(waterproof_regex, text).end >= 0

has_uv_protection(text) == re_search(uv_regex, text).end >= 0

_extract_cover_specs(text) ==
    [material          |-> _detect_material(text),
     vehicle_type      |-> _detect_vehicle_type(text),
     is_waterproof     |-> is_waterproof(text),
     has_uv_protection |-> has_uv_protection(text),
     size              |-> _extract_size(text)]

----------------------------------------------------------------------------
(* CarCoverScraper.__init__ and the call in __main__ *)

max_threads == 4

output_formats == <<"csv", "parquet">>

\* scraper.scrape(pages=2)
pages == 2

----------------------------------------------------------------------------
(* The descriptions the extraction is run on: every text made of at most   *)
(* MaxWords fragments of one vocabulary (material, vehicle type, flags),   *)
(* and for the size parser of at most MaxTokens fragments of its own.      *)

MaxWords == 3

MaxTokens == 4

MaterialWords ==
    { <<"p", "o", "l", "y">>, <<"e", "s", "t", "e", "r">>,
      <<"n", "y", "l", "o", "n">>, <<"N", "Y", "L", "O", "N">>,
      <<"C", "o", "t", "t", "o", "n">>,
      <<"P", "V", "C">>, <<"p", "v", "c">>, <<"V", "i", "n", "y", "l">>,
      <<" ">>, <<"c", "o", "v", "e", "r">> }

VehicleWords ==
    { <<"S", "U", "V">>, <<"s", "u", "v">>, <<"S", "u", "v">>,
      <<"S", "e", "d", "a", "n">>, <<"h", "a", "t", "c", "h">>,
      <<"b", "a", "c", "k">>, <<"U", "n", "i", "v", "e", "r", "s", "a", "l">>,
      <<"s", "p", "o", "r", "t">>, <<"U", "t", "i", "l", "i", "t", "y">>,
      <<"f", "i", "t", " ">>, <<"A", "L", "L">>, <<" ">> }

FlagWords ==
    { <<"W", "a", "t", "e", "r">>, <<"r", "a", "i", "n">>,
      <<"p", "r", "o", "o", "f">>, <<"P", "R", "O", "O", "F">>,
      <<"U", "V">>, <<"u", "v">>,
      <<"U", "l", "t", "r", "a", "v", "i", "o", "l", "e", "t">>,
      <<"s", "u", "n">>, <<"P", "r", "o", "t", "e", "c", "t">>,
      <<"S", "U", "V">>, <<" ">>, <<"-">> }

SizeTokens ==
    { <<"1", "5">>, <<"2", "c", "m">>, <<"c", "m">>, <<"C", "M">>,
      <<"x">>, <<"X">>, <<SquareRoot>>, <<" ">>,
      <<"7", "c", "m", "x", "8", "c", "m">> }

RECURSIVE Join(_)
Join(fragments) ==
    IF fragments = <<>> THEN <<>>
    ELSE Head(fragments) \o Join(Tail(fragments))

\* text is made of at most n fragments of the vocabulary.
IsTextOver(text, vocabulary, n) ==
    \E k \in 0..n : \E fs \in [1..k -> vocabulary] : text = Join(fs)

IsDescription(text) ==
    \/ IsTextOver(text, MaterialWords, MaxWords)
    \/ IsTextOver(text, VehicleWords, MaxWords)
    \/ IsTextOver(text, FlagWords, MaxWords)

IsSizeDescription(text) == IsTextOver(text, SizeTokens, MaxTokens)

----------------------------------------------------------------------------
(* A direct call of _extract_cover_specs on one description *)

NoScrape ==
    /\ site = <<>>
    /\ page = 0
    /\ listings = <<>>
    /\ idx = 0
    /\ listing_data = <<>>
    /\ results = <<>>
    /\ executor = <<>>
    /\ files = <<>>
    /\ returned = <<>>
    /\ scrape_pc = "idle"

InitExtract ==
    /\ IsDescription(description)
    /\ specs = None
    /\ pc = "input"
    /\ NoScrape

InitSize ==
    /\ IsSizeDescription(description)
    /\ specs = None
    /\ pc = "input"
    /\ NoScrape

\* specs = self._extract_cover_specs(description)
Extract ==
    /\ pc = "input"
    /\ specs' = _extract_cover_specs(description)
    /\ pc' = "done"
    /\ UNCHANGED <<description, scrape_vars>>

NextExtract == Extract

SpecExtract == InitExtract /\ [][NextExtract]_vars

SpecSize == InitSize /\ [][NextExtract]_vars

----------------------------------------------------------------------------
(* What the site serves.  A search page either fails to load or holds at   *)
(* most MaxListings listings; a listing either lacks one of its title,     *)
(* price, location or link elements or has them all and a detail page,     *)
(* whose fetch raises or returns a page with or without a description.     *)

MaxListings == 2

DetailTexts ==
    { <<"R", "a", "i", "n", " ", "p", "r", "o", "o", "f", " ",
        "s", "u", "v", " ", "1", "5", "c", "m", "x", "2", "c", "m">> }

Listings ==
    { [wellformed |-> FALSE, raises |-> FALSE, has_description |-> FALSE,
       text |-> <<>>],
      [wellformed |-> TRUE, raises |-> TRUE, has_description |-> FALSE,
       text |-> <<>>],
      [wellformed |-> TRUE, raises |-> FALSE, has_description |-> FALSE,
       text |-> <<>>] }
    \cup { [wellformed |-> TRUE, raises |-> FALSE, has_description |-> TRUE,
            text |-> t] : t \in DetailTexts }

SearchPages ==
    { [raises |-> TRUE, listings |-> <<>>] }
    \cup { [raises |-> FALSE, listings |-> ls] :
             ls \in UNION { [1..n -> Listings] : n \in 0..MaxListings } }

----------------------------------------------------------------------------
(* CarCoverScraper._scrape_listing_page: the specs dict, or None when the  *)
(* fetch raised.  The return value is a sequence of at most one record,    *)
(* <<>> for None.                                                          *)

_scrape_listing_page(listing) ==
    IF listing.raises
    THEN <<>>
    ELSE LET text == IF listing.has_description THEN listing.text ELSE <<>>
         IN  << _extract_cover_specs(text) >>

----------------------------------------------------------------------------
(* CarCoverScraper.scrape *)

InitScrape ==
    /\ description = <<>>
    /\ specs = None
    /\ pc = "idle"
    /\ site \in [1..pages -> SearchPages]
    /\ page = 1
    /\ listings = <<>>
    /\ idx = 0
    /\ listing_data = <<>>
    /\ results = <<>>
    /\ executor = <<>>
    /\ files = <<>>
    /\ returned = <<>>
    /\ scrape_pc = IF pages >= 1 THEN "fetch_page" ELSE "save"

\* The next iteration of `for page in range(1, pages + 1)`, or the end of
\* the loop.
NextPage ==
    /\ page' = page + 1
    /\ scrape_pc' = IF page + 1 <= pages THEN "fetch_page" ELSE "save"

\* The page's records reach results although the page failed.
PageFailed_KeepsRecords ==
    /\ executor' = <<>>
    /\ results' = results \o listing_data
    /\ NextPage
    /\ UNCHANGED listing_data

\* except Exception: logging.error(...); continue -- leaving the with block
\* shuts the executor down first; results.extend(listing_data) is skipped.
PageFailed ==
    /\ executor' = <<>>
    /\ NextPage
    /\ UNCHANGED <<results, listing_data>>

\* session.get(url) and soup.find_all for the search page succeed; the
\* executor of the page is created.
FetchSearchPage ==
    /\ scrape_pc = "fetch_page"
    /\ ~site[page].raises
    /\ listings' = site[page].listings
    /\ listing_data' = <<>>
    /\ idx' = 1
    /\ executor' = <<>>
    /\ scrape_pc' = "listing"
    /\ UNCHANGED <<extract_vars, site, page, results, files, returned>>

\* session.get(url) for the search page raises.
FetchSearchPageFails ==
    /\ scrape_pc = "fetch_page"
    /\ site[page].raises
    /\ PageFailed
    /\ UNCHANGED <<extract_vars, site, listings, idx, files, returned>>

\* The detail page is submitted and the loop goes on to the next listing
\* without waiting for the result.
SubmitListing_NoAwait ==
    /\ scrape_pc = "listing"
    /\ idx <= Len(listings)
    /\ listings[idx].wellformed
    /\ executor' = Append(executor,
           [url |-> <<page, idx>>, state |-> "pending", result |-> <<>>])
    /\ idx' = idx + 1
    /\ UNCHANGED <<extract_vars, site, page, listings, listing_data,
                   results, files, returned, scrape_pc>>

\* title, price, location and link are read and the detail page is
\* submitted: executor.submit(self._scrape_listing_page, link)
SubmitListing ==
    /\ scrape_pc = "listing"
    /\ idx <= Len(listings)
    /\ listings[idx].wellformed
    /\ executor' = Append(executor,
           [url |-> <<page, idx>>, state |-> "pending", result |-> <<>>])
    /\ scrape_pc' = "await"
    /\ UNCHANGED <<extract_vars, site, page, listings, idx, listing_data,
                   results, files, returned>>

\* listing.find(...) returns None for one of the four elements: .text or
\* ['href'] raises inside the with block.
ListingMalformed ==
    /\ scrape_pc = "listing"
    /\ idx <= Len(listings)
    /\ ~listings[idx].wellformed
    /\ PageFailed
    /\ UNCHANGED <<extract_vars, site, listings, idx, files, returned>>

Running == {f \in 1..Len(executor) : executor[f].state = "running"}

\* A free worker thread of the pool takes a pending future.
WorkerStart(f) ==
    /\ executor[f].state = "pending"
    /\ Cardinality(Running) < max_threads
    /\ executor' = [executor EXCEPT ![f].state = "running"]
    /\ UNCHANGED <<extract_vars, site, page, listings, idx, listing_data,
                   results, files, returned, scrape_pc>>

\* The worker runs _scrape_listing_page to its return.
WorkerFinish(f) ==
    /\ executor[f].state = "running"
    /\ LET url == executor[f].url
           link == site[url[1]].listings[url[2]]
       IN  executor' = [executor EXCEPT ![f].state = "done",
                                        ![f].result = _scrape_listing_page(link)]
    /\ UNCHANGED <<extract_vars, site, page, listings, idx, listing_data,
                   results, files, returned, scrape_pc>>

\* {'title': ..., 'url': link, **specs, 'scraped_at': ...}: the listing's
\* own fields are named by its url, the clock is left out.
ListingRecord(url, listing_specs) == [url |-> url] @@ listing_specs

\* .result() returns for the future submitted last; `if specs:` appends
\* the record.
AwaitResult ==
    /\ scrape_pc = "await"
    /\ executor[Len(executor)].state = "done"
    /\ LET result == executor[Len(executor)].result
       IN  listing_data' =
               IF Len(result) > 0
               THEN Append(listing_data,
                           ListingRecord(<<page, idx>>, result[1]))
               ELSE listing_data
    /\ idx' = idx + 1
    /\ scrape_pc' = "listing"
    /\ UNCHANGED <<extract_vars, site, page, listings, results, executor,
                   files, returned>>

\* The listing loop and the with block end: results.extend(listing_data)
EndPage ==
    /\ scrape_pc = "listing"
    /\ idx > Len(listings)
    /\ results' = results \o listing_data
    /\ executor' = <<>>
    /\ NextPage
    /\ UNCHANGED <<extract_vars, site, listings, idx, listing_data, files,
                   returned>>

\* _save_results(data): one file of the rows per output format.
_save_results(data) ==
    [k \in 1..Len(output_formats) |->
        [format |-> output_formats[k], rows |-> data]]

\* self._save_results(results); return results
SaveAndReturn ==
    /\ scrape_pc = "save"
    /\ files' = files \o _save_results(results)
    /\ returned' = results
    /\ scrape_pc' = "done"
    /\ UNCHANGED <<extract_vars, site, page, listings, idx, listing_data,
                   results, executor>>

Next ==
    \/ FetchSearchPage
    \/ FetchSearchPageFails
    \/ SubmitListing
    \/ ListingMalformed
    \/ \E f \in 1..Len(executor) : WorkerStart(f)
    \/ \E f \in 1..Len(executor) : WorkerFinish(f)
    \/ AwaitResult
    \/ EndPage
    \/ SaveAndReturn

Spec == InitScrape /\ [][Next]_vars

----------------------------------------------------------------------------
(* What the specification says of the classifiers, stated on the text      *)
(* itself: a keyword occurs in a text when some stretch of the text spells *)
(* it, letter case aside.                                                  *)

\* The place in the alphabet of each letter, small or capital.
LetterNumber ==
    [c \in {LowerLetters[j] : j \in 1..26} \cup {UpperLetters[j] : j \in 1..26}
        |-> CHOOSE j \in 1..26 : c \in {LowerLetters[j], UpperLetters[j]}]

SameLetter(a, b) ==
    \/ a = b
    \/ /\ a \in DOMAIN LetterNumber
       /\ b \in DOMAIN LetterNumber
       /\ LetterNumber[a] = LetterNumber[b]

OccursAt(kw, text, i) ==
    /\ i + Len(kw) - 1 <= Len(text)
    /\ \A k \in 1..Len(kw) : SameLetter(text[i + k - 1], kw[k])

Occurs(kw, text) == \E i \in 1..Len(text) : OccursAt(kw, text, i)

AllIn(text, a, b, S) == \A j \in a..b : text[j] \in S

\* first, then zero or more whitespace characters, then second.
OccursThenAfterWhitespace(first, second, text) ==
    \E i \in 1..Len(text) :
        /\ OccursAt(first, text, i)
        /\ \E j \in (i + Len(first))..Len(text) :
               /\ AllIn(text, i + Len(first), j - 1, Whitespace)
               /\ OccursAt(second, text, j)

Polyester == <<"p", "o", "l", "y", "e", "s", "t", "e", "r">>

Nylon == <<"n", "y", "l", "o", "n">>

Cotton == <<"c", "o", "t", "t", "o", "n">>

PVC == <<"P", "V", "C">>

SUV == <<"S", "U", "V">>

Sedan == <<"s", "e", "d", "a", "n">>

Hatchback == <<"h", "a", "t", "c", "h", "b", "a", "c", "k">>

Universal == <<"u", "n", "i", "v", "e", "r", "s", "a", "l">>

\* polyester <- {"polyester","poly"}; nylon <- {"nylon"};
\* cotton <- {"cotton"}; PVC <- {"PVC","vinyl"}
MaterialOrder ==
    << [label |-> Polyester, keywords |-> {Polyester, <<"p", "o", "l", "y">>}],
       [label |-> Nylon, keywords |-> {Nylon}],
       [label |-> Cotton, keywords |-> {Cotton}],
       [label |-> PVC, keywords |-> {PVC, <<"v", "i", "n", "y", "l">>}] >>

\* SUV <- {"SUV","sport utility"}; sedan <- {"sedan"};
\* hatchback <- {"hatchback","hatch"};
\* universal <- {"universal","all cars","fit all"}
VehicleTypeOrder ==
    << [label |-> SUV,
        keywords |-> {SUV, <<"s", "p", "o", "r", "t", " ",
                             "u", "t", "i", "l", "i", "t", "y">>}],
       [label |-> Sedan, keywords |-> {Sedan}],
       [label |-> Hatchback,
        keywords |-> {Hatchback, <<"h", "a", "t", "c", "h">>}],
       [label |-> Universal,
        keywords |-> {Universal, <<"a", "l", "l", " ", "c", "a", "r", "s">>,
                      <<"f", "i", "t", " ", "a", "l", "l">>}] >>

\* The labels of the table one of whose keywords occurs in the text.
MatchingLabels(order, text) ==
    {n \in 1..Len(order) : \E kw \in order[n].keywords : Occurs(kw, text)}

\* The earliest of them, or absent.
EarliestLabel(order, text) ==
    LET matching == MatchingLabels(order, text)
    IN  IF matching = {} THEN None
        ELSE order[CHOOSE n \in matching : \A o \in matching : n <= o].label

AllAbsent ==
    [material |-> None, vehicle_type |-> None, is_waterproof |-> FALSE,
     has_uv_protection |-> FALSE, size |-> None]

----------------------------------------------------------------------------
(* The material classifier *)

\* C2: a description that contains "PVC" in any letter case and no keyword
\* of polyester, nylon or cotton is classified PVC.
C2_PVCKeywordAnyLetterCase ==
    (/\ pc = "done"
     /\ Occurs(PVC, description)
     /\ MatchingLabels(MaterialOrder, description) \subseteq {4})
        => specs.material = PVC

\* C3: when keywords of more than one material label occur in the
\* description, the material is the earliest matching label in the order
\* polyester, nylon, cotton, PVC; the material is absent only when no
\* keyword of any label occurs.
C3_MaterialPrecedence ==
    pc = "done" =>
        /\ Cardinality(MatchingLabels(MaterialOrder, description)) > 1
               => specs.material = EarliestLabel(MaterialOrder, description)
        /\ specs.material = None
               => MatchingLabels(MaterialOrder, description) = {}

\* The precedence half of C3 alone: it holds of the code.
MaterialPrecedenceAmongSeveral ==
    (/\ pc = "done"
     /\ Cardinality(MatchingLabels(MaterialOrder, description)) > 1)
        => specs.material = EarliestLabel(MaterialOrder, description)

----------------------------------------------------------------------------
(* The vehicle-type classifier *)

\* C4: the vehicle type is the earliest label, in the order SUV, sedan,
\* hatchback, universal, one of whose keywords occurs in the description in
\* any letter case, and absent when none occurs.
C4_VehicleTypeFirstMatch ==
    pc = "done" =>
        specs.vehicle_type = EarliestLabel(VehicleTypeOrder, description)

\* "hatch", "Sedan" and "suv" in one text: three labels match, SUV wins
\* although its keyword comes last and in lower case.
C4_Witness ==
    /\ pc = "done"
    /\ description = <<"h", "a", "t", "c", "h">> \o <<"S", "e", "d", "a", "n">>
                         \o <<"s", "u", "v">>
    /\ MatchingLabels(VehicleTypeOrder, description) = {1, 2, 3}
    /\ specs.vehicle_type = SUV

----------------------------------------------------------------------------
(* The boolean flags *)

RainProofText == <<"r", "a", "i", "n", " ", "p", "r", "o", "o", "f">>

\* C6: is_waterproof is true exactly when "water" or "rain", then zero or
\* more whitespace, then "proof" occurs in the description in any letter
\* case; has_uv_protection exactly when "UV", "ultraviolet", or "sun", then
\* zero or more whitespace, then "protect" occurs; "rain proof" alone gives
\* is_waterproof true and has_uv_protection false.
C6_FlagsIndependent ==
    pc = "done" =>
        /\ specs.is_waterproof <=>
               \/ OccursThenAfterWhitespace(<<"w", "a", "t", "e", "r">>,
                      <<"p", "r", "o", "o", "f">>, description)
               \/ OccursThenAfterWhitespace(<<"r", "a", "i", "n">>,
                      <<"p", "r", "o", "o", "f">>, description)
        /\ specs.has_uv_protection <=>
               \/ Occurs(<<"U", "V">>, description)
               \/ Occurs(<<"u", "l", "t", "r", "a", "v", "i", "o", "l", "e", "t">>,
                      description)
               \/ OccursThenAfterWhitespace(<<"s", "u", "n">>,
                      <<"p", "r", "o", "t", "e", "c", "t">>, description)
        /\ description = RainProofText
               => specs.is_waterproof /\ ~specs.has_uv_protection

\* The two flags on four descriptions of the vocabulary, one per combination.
FlagExamples ==
    { <<>>,
      RainProofText,
      <<"u", "v">>,
      <<"W", "a", "t", "e", "r", "P", "R", "O", "O", "F", "U", "V">> }

\* "rain proof" has been extracted, and the four examples give the four
\* combinations of the two flags.
C6_Witness ==
    /\ pc = "done"
    /\ description = RainProofText
    /\ specs.is_waterproof
    /\ ~specs.has_uv_protection
    /\ \A t \in FlagExamples : IsTextOver(t, FlagWords, MaxWords)
    /\ {<<is_waterproof(t), has_uv_protection(t)>> : t \in FlagExamples}
           = BOOLEAN \X BOOLEAN

----------------------------------------------------------------------------
(* The whole record *)

IsStr(value) ==
    /\ DOMAIN value = 1..Len(value)
    /\ \A i \in 1..Len(value) :
           \/ value[i] \in Digits
           \/ value[i] \in DOMAIN LetterNumber

\* C7: on every description the call returns a record of the five fields,
\* each a label or absent, a boolean, or a size string or absent, and
\* never anything else; on the empty string it returns absent, absent,
\* false, false, absent.
C7_TotalOnDegenerateInput ==
    pc = "done" =>
        /\ DOMAIN specs = {"material", "vehicle_type", "is_waterproof",
                           "has_uv_protection", "size"}
        /\ specs.material \in {Polyester, Nylon, Cotton, PVC, None}
        /\ specs.vehicle_type \in {SUV, Sedan, Hatchback, Universal, None}
        /\ specs.is_waterproof \in BOOLEAN
        /\ specs.has_uv_protection \in BOOLEAN
        /\ specs.size = None \/ IsStr(specs.size)
        /\ description = <<>> => specs = AllAbsent
        /\ MatchingLabels(MaterialOrder, description) = {}
               => specs.material = None

\* The empty string has been extracted.
C7_Witness ==
    /\ pc = "done"
    /\ description = <<>>
    /\ specs = AllAbsent

\* C10: a description in which "SUV" occurs in any letter case gets
\* has_uv_protection = true together with vehicle_type = SUV.
C10_SUVImpliesUVProtection ==
    (pc = "done" /\ Occurs(SUV, description))
        => specs.has_uv_protection /\ specs.vehicle_type = SUV

\* "Suv Sedan": no UV, ultraviolet or sun protection is mentioned.
C10_Witness ==
    /\ pc = "done"
    /\ description = <<"S", "u", "v", " ", "S", "e", "d", "a", "n">>
    /\ specs.has_uv_protection
    /\ specs.vehicle_type = SUV

----------------------------------------------------------------------------
(* The dimension parser *)

UnitAt(text, u, anycase) ==
    IF anycase
    THEN OccursAt(<<"c", "m">>, text, u)
    ELSE u + 1 <= Len(text) /\ text[u] = "c" /\ text[u + 1] = "m"

\* Digits at i..e1, optional whitespace, the unit, optional whitespace, a
\* separator, optional whitespace, digits at s2..e2, optional whitespace,
\* the unit.
DimensionAt(text, i, e1, s2, e2, separators, anycase) ==
    /\ AllIn(text, i, e1, Digits)
    /\ AllIn(text, s2, e2, Digits)
    /\ \E u1 \in (e1 + 1)..(s2 - 3) :
           /\ AllIn(text, e1 + 1, u1 - 1, Whitespace)
           /\ UnitAt(text, u1, anycase)
           /\ \E sep \in (u1 + 2)..(s2 - 1) :
                  /\ AllIn(text, u1 + 2, sep - 1, Whitespace)
                  /\ text[sep] \in separators
                  /\ AllIn(text, sep + 1, s2 - 1, Whitespace)
    /\ \E u2 \in (e2 + 1)..(Len(text) - 1) :
           /\ AllIn(text, e2 + 1, u2 - 1, Whitespace)
           /\ UnitAt(text, u2, anycase)

DimensionFrom(text, i, separators, anycase) ==
    /\ text[i] \in Digits
    /\ \E e1 \in i..Len(text) : \E s2 \in (e1 + 4)..Len(text) :
           /\ text[s2] \in Digits
           /\ \E e2 \in s2..Len(text) :
                  DimensionAt(text, i, e1, s2, e2, separators, anycase)

HasDimension(text, separators, anycase) ==
    \E i \in 1..Len(text) : DimensionFrom(text, i, separators, anycase)

\* size is "<W>x<H>cm" for the digit groups W and H of the leftmost
\* occurrence.
IsFirstDimension(size, text, separators, anycase) ==
    \E i \in 1..Len(text) :
        /\ text[i] \in Digits
        /\ \A h \in 1..(i - 1) : ~DimensionFrom(text, h, separators, anycase)
        /\ \E e1 \in i..Len(text) : \E s2 \in (e1 + 4)..Len(text) :
               /\ text[s2] \in Digits
               /\ \E e2 \in s2..Len(text) :
                      /\ DimensionAt(text, i, e1, s2, e2, separators, anycase)
                      /\ size = SubSeq(text, i, e1) \o <<"x">>
                                    \o SubSeq(text, s2, e2) \o <<"c", "m">>

\* C1: a text that holds digits, "cm", "x", digits, "cm" with optional
\* whitespace between them, the unit and the separator in any letter case,
\* gets the size "<W>x<H>cm", not absent.
C1_SizeAnyLetterCase ==
    (pc = "done" /\ HasDimension(description, {"x", "X"}, TRUE))
        => /\ specs.size # None
           /\ IsFirstDimension(specs.size, description, {"x", "X"}, TRUE)

\* C5: a text that holds digits, "cm", the separator "x", digits, "cm" with
\* optional whitespace between them gets the size "<W>x<H>cm" of the digit
\* groups of the leftmost such occurrence; a text without "cm" gets absent.
C5_SizeOfLeftmostOccurrence ==
    pc = "done" =>
        /\ HasDimension(description, {"x"}, FALSE)
               => IsFirstDimension(specs.size, description, {"x"}, FALSE)
        /\ ~(\E u \in 1..Len(description) : UnitAt(description, u, FALSE))
               => specs.size = None

\* What the code does where C5 fails: the size is that of the leftmost
\* occurrence whose separator is "x", U+221A or U+00F3, and absent exactly
\* when there is none.
SizeOfLeftmostPatternMatch ==
    pc = "done" =>
        IF HasDimension(description, {"x", SquareRoot, OAcute}, FALSE)
        THEN IsFirstDimension(specs.size, description,
                              {"x", SquareRoot, OAcute}, FALSE)
        ELSE specs.size = None

----------------------------------------------------------------------------
(* The scrape loop *)

\* The futures submitted and not yet done.
InFlight == {f \in 1..Len(executor) : executor[f].state # "done"}

UrlBefore(a, b) == a[1] < b[1] \/ (a[1] = b[1] /\ a[2] < b[2])

InListingOrder(records) ==
    \A i, j \in 1..Len(records) :
        i < j => UrlBefore(records[i].url, records[j].url)

PageProcessed(p) ==
    /\ ~site[p].raises
    /\ \A i \in 1..Len(site[p].listings) : site[p].listings[i].wellformed

\* One record for each listing i.. of page p whose detail fetch did not
\* raise; a detail page without a description gives the all-absent record.
RECURSIVE RecordsOfListings(_, _)
RecordsOfListings(p, i) ==
    IF i > Len(site[p].listings)
    THEN <<>>
    ELSE LET listing == site[p].listings[i]
             record == [url |-> <<p, i>>] @@
                           IF listing.has_description
                           THEN _extract_cover_specs(listing.text)
                           ELSE AllAbsent
         IN  (IF listing.raises THEN <<>> ELSE <<record>>)
                 \o RecordsOfListings(p, i + 1)

\* The records of the pages 1..p.
RECURSIVE RecordsOfPages(_)
RecordsOfPages(p) ==
    IF p = 0
    THEN <<>>
    ELSE RecordsOfPages(p - 1)
             \o (IF PageProcessed(p) THEN RecordsOfListings(p, 1) ELSE <<>>)

\* C9: results holds exactly one record for each listing whose detail
\* fetch did not raise on the pages processed without an exception:
\* whenever the page loop is at its head, for the pages before it; and at
\* the end for all pages, when _save_results has been called once, and not
\* before, with what scrape returns.
C9_FailureIsolation ==
    /\ scrape_pc \in {"fetch_page", "save", "done"}
           => results = RecordsOfPages(page - 1)
    /\ scrape_pc # "done" => files = <<>>
    /\ scrape_pc = "done" =>
           /\ returned = RecordsOfPages(pages)
           /\ files = << [format |-> "csv", rows |-> returned],
                         [format |-> "parquet", rows |-> returned] >>

\* The first page failed on a malformed listing after a record had been
\* gathered from it; on the second page the first detail fetch raised and
\* the second detail page had no description: one all-absent record.
C9_Witness ==
    /\ scrape_pc = "done"
    /\ Len(site[1].listings) = 2
    /\ site[1].listings[1].has_description
    /\ ~site[1].listings[2].wellformed
    /\ Len(site[2].listings) = 2
    /\ site[2].listings[1].raises
    /\ site[2].listings[2].wellformed
    /\ ~site[2].listings[2].raises
    /\ ~site[2].listings[2].has_description
    /\ returned = << [url |-> <<2, 2>>] @@ AllAbsent >>
    /\ Len(files) = 2

=============================================================================
